---- MODULE Spec2Model ----
(***************************************************************************)
(* The interactive graph canvas (GraphView) and the note store (App) it    *)
(* talks to.  The store's setNotes(prev => ...) updaters are a queue of    *)
(* requests applied one at a time, in order, at a moment the canvas does   *)
(* not control; the canvas sees the result only as a new `notes` prop.     *)
(***************************************************************************)
EXTENDS Integers, Sequences, FiniteSets, TLC

\* ------------------------------------------------------------------ bounds
\* Identifiers ever handed out (crypto.randomUUID never repeats one).
MaxNotes == 3
\* Store requests emitted and not yet applied.
MaxPending == 2
\* Pointer canvas positions are the grid cells 0..MaxCell of the x axis.
MaxCell == 1
\* Pointer device positions are 0..MaxPx steps of PxStep pixels, on the x axis.
MaxPx == 1
\* Wheel ticks (each scales the viewBox by 1.05 or 0.95).
MaxZoomTicks == 1
\* The viewBox origin stays within MaxPan widest pan steps of (0, 0).
MaxPan == 1

\* ------------------------------------------------------- program constants
NODE_RADIUS == 30
VIEW_W == 1200
VIEW_H == 800
CONFIRM_OVER == 3
DUP_OFFSET == 40

\* One grid cell is the duplicate offset, so a copy lands on the grid.
Cell == DUP_OFFSET
\* Device pixels per pointer step.
PxStep == DUP_OFFSET \div 2
\* The render surface (containerRef) in device pixels: half the initial viewBox.
SurfaceW == VIEW_W \div 2
SurfaceH == VIEW_H \div 2
\* Wheel factors 1.05 and 0.95 as fractions over ZoomDen.
ZoomDen == 20
WheelGrow == ZoomDen + 1
WheelShrink == ZoomDen - 1
\* viewBox fields are held in units of 1/Unit so that MaxZoomTicks ticks are exact.
Unit == ZoomDen ^ MaxZoomTicks
\* The widest pan of one pointer step, in viewBox units.
PanLimit == MaxPan * PxStep * ((VIEW_W * (WheelGrow ^ MaxZoomTicks)) \div SurfaceW)

Ids == 1 .. MaxNotes
NoId == 0
Coord == {c * Cell : c \in 0 .. MaxCell}
Pts == [x : Coord, y : {0}]
ClientPts == [x : {p * PxStep : p \in 0 .. MaxPx}, y : {0}]
Modes == {"PAN", "SELECT", "CONNECT", "DEFAULT"}

None == <<>>
Some(v) == <<v>>
EmptyMap == [i \in {} |-> 0]

\* -------------------------------------------------------------- array helpers
Range(s) == {s[i] : i \in 1 .. Len(s)}

NoteIds(ns) == {ns[i].id : i \in 1 .. Len(ns)}

\* notes.find(n => n.id === id): the first entry with that identifier.
Find(ns, id) == ns[CHOOSE i \in 1 .. Len(ns) : ns[i].id = id /\ \A j \in 1 .. (i - 1) : ns[j].id # id]

\* links.includes(id)
Includes(links, id) == \E i \in 1 .. Len(links) : links[i] = id

\* links.filter(l => l !== id)
RECURSIVE Without(_, _)
Without(links, id) ==
    IF links = <<>> THEN <<>>
    ELSE IF Head(links) = id THEN Without(Tail(links), id)
         ELSE <<Head(links)>> \o Without(Tail(links), id)

\* arr.filter(n => keep(n.id)) for a set of identifiers to keep out
RECURSIVE FilterOut(_, _)
FilterOut(ns, ids) ==
    IF ns = <<>> THEN <<>>
    ELSE IF Head(ns).id \in ids THEN FilterOut(Tail(ns), ids)
         ELSE <<Head(ns)>> \o FilterOut(Tail(ns), ids)

\* ------------------------------------------------------------------ the store
\* A request queued by a setNotes(prev => ...) call.
UpdateReq(batch) == [kind |-> "update", updates |-> batch, ids |-> <<>>]
DeleteReq(idSeq) == [kind |-> "delete", updates |-> <<>>, ids |-> idSeq]
DuplicateReq(idSeq) == [kind |-> "duplicate", updates |-> <<>>, ids |-> idSeq]

\* new Map(updates.map(n => [n.id, n])).get(id): the last entry with that id.
UpdateMapGet(updates, id) ==
    updates[CHOOSE i \in 1 .. Len(updates) :
                updates[i].id = id /\ \A j \in (i + 1) .. Len(updates) : updates[j].id # id]

\* A merge that also appends the batch entries it found no entity for.
BatchUpdateUpsert(prev, updates) ==
    [i \in 1 .. Len(prev) |->
        IF \E k \in 1 .. Len(updates) : updates[k].id = prev[i].id
        THEN UpdateMapGet(updates, prev[i].id)
        ELSE prev[i]]
    \o SelectSeq(updates, LAMBDA u : u.id \notin NoteIds(prev))

\* handleBatchUpdateNotes: prev.map(n => updateMap.get(n.id) || n)
BatchUpdateNotes(prev, updates) ==
    [i \in 1 .. Len(prev) |->
        IF \E k \in 1 .. Len(updates) : updates[k].id = prev[i].id
        THEN UpdateMapGet(updates, prev[i].id)
        ELSE prev[i]]

\* handleBatchDelete: prev.filter(n => !ids.includes(n.id))
BatchDelete(prev, idSeq) == FilterOut(prev, Range(idSeq))

\* Copies that keep the identifier of their original.
RECURSIVE CopiesSameId(_, _, _)
CopiesSameId(prev, idSeq, fresh) ==
    IF idSeq = <<>> THEN <<>>
    ELSE IF Head(idSeq) \in NoteIds(prev)
         THEN LET original == Find(prev, Head(idSeq))
              IN  <<[original EXCEPT !.x = original.x + DUP_OFFSET,
                                     !.y = original.y + DUP_OFFSET]>>
                  \o CopiesSameId(prev, Tail(idSeq), fresh + 1)
         ELSE CopiesSameId(prev, Tail(idSeq), fresh)

\* handleBatchDuplicate: one copy per listed identifier found in prev, offset by
\* (+40, +40), appended in the order listed; `fresh` is the first new identifier.
RECURSIVE Copies(_, _, _)
Copies(prev, idSeq, fresh) ==
    IF idSeq = <<>> THEN <<>>
    ELSE IF Head(idSeq) \in NoteIds(prev)
         THEN LET original == Find(prev, Head(idSeq))
              IN  <<[original EXCEPT !.id = fresh,
                                     !.x = original.x + DUP_OFFSET,
                                     !.y = original.y + DUP_OFFSET]>>
                  \o Copies(prev, Tail(idSeq), fresh + 1)
         ELSE Copies(prev, Tail(idSeq), fresh)

BatchDuplicate(prev, idSeq, fresh) == prev \o Copies(prev, idSeq, fresh)


\* ----------------------------------------------------------------- the canvas
VARIABLES
    notes,              \* App: the entity list, the canvas's `notes` prop
    pending,            \* App: setNotes updaters queued and not yet applied
    nextId,             \* the next identifier crypto.randomUUID hands out
    currentView,        \* App: "GRAPH" while the canvas is mounted
    viewBox,            \* GraphView state; x, y, w, h in units of 1/Unit
    wheelTicks,         \* wheel events so far (caps the zoom)
    mode,
    isLayoutLocked,
    selectedNodeIds,
    activeNodeId,
    linkSourceId,
    activeDragIds,
    dragOverrides,
    selectionBox,
    selectionMenuPos,
    pointerStartPos,    \* refs (wasNodeSelectedRef is left out: it is read only by
                        \* handleNodePointerUp, which no element is given)
    isDraggingRef,
    lastPanPoint,
    dragStartOffsets,
    dragCommitRef,
    dragOrigin,         \* history: each dragged entity's stored position when its
                        \* offset was recorded (kept and dropped with the offsets)
    ptr                 \* the platform's pointer: "up", or where it went down

appVars == <<notes, pending, nextId, currentView>>
viewVars == <<viewBox, wheelTicks>>
toolVars == <<mode, isLayoutLocked>>
pickVars == <<selectedNodeIds, activeNodeId, linkSourceId, selectionBox, selectionMenuPos>>
dragVars == <<activeDragIds, dragOverrides, dragStartOffsets, dragCommitRef, dragOrigin>>
refVars == <<pointerStartPos, isDraggingRef, lastPanPoint>>
vars == <<notes, pending, nextId, currentView, viewBox, wheelTicks, mode, isLayoutLocked,
          selectedNodeIds, activeNodeId, linkSourceId, activeDragIds, dragOverrides,
          selectionBox, selectionMenuPos, pointerStartPos, isDraggingRef, lastPanPoint,
          dragStartOffsets, dragCommitRef, dragOrigin, ptr>>

Note(id, x, y, links) == [id |-> id, x |-> x, y |-> y, links |-> links]

\* The entity lists a project is opened with: two entities one cell apart, with
\* the adjacency recorded on neither side, on both sides with a repeated entry,
\* or pointing at an identifier that is not in the list.
InitNotes ==
    { <<Note(1, 0, 0, <<>>), Note(2, Cell, 0, <<>>)>>,
      <<Note(1, 0, 0, <<2, 2>>), Note(2, Cell, 0, <<1>>)>>,
      <<Note(1, 0, 0, <<MaxNotes + 1>>), Note(2, Cell, 0, <<>>)>> }

\* The canvas's local state when GraphView mounts.
Mounted ==
    /\ viewBox = [x |-> 0, y |-> 0, w |-> VIEW_W * Unit, h |-> VIEW_H * Unit]
    /\ wheelTicks = 0
    /\ mode = "DEFAULT"
    /\ isLayoutLocked = FALSE
    /\ selectedNodeIds = {}
    /\ activeNodeId = NoId
    /\ linkSourceId = NoId
    /\ activeDragIds = {}
    /\ dragOverrides = EmptyMap
    /\ selectionBox = None
    /\ selectionMenuPos = None
    /\ pointerStartPos = [x |-> 0, y |-> 0]
    /\ isDraggingRef = FALSE
    /\ lastPanPoint = [x |-> 0, y |-> 0]
    /\ dragStartOffsets = EmptyMap
    /\ dragCommitRef = FALSE
    /\ dragOrigin = EmptyMap

Init ==
    /\ notes \in InitNotes
    /\ pending = <<>>
    /\ nextId = 3
    /\ currentView = "GRAPH"
    /\ ptr = "up"
    /\ Mounted

\* onUpdateNotes / onDeleteNotes / onDuplicateNotes: queue the updater.
Emit(req) == pending' = Append(pending, req)
CanEmit == Len(pending) < MaxPending

\* ------------------------------------------------------------ render layers
\* getLinkKey: the two identifiers, smaller first, joined by "-".  Identifiers are
\* UUIDs of one length, so the joined string determines the ordered pair.
getLinkKey(a, b) == IF a < b THEN <<a, b>> ELSE <<b, a>>

\* The (source index, link index) pairs of the entity list in forEach order.
LinkSlots(ns) == UNION {{<<i, k>> : k \in 1 .. Len(ns[i].links)} : i \in 1 .. Len(ns)}
SlotBefore(s, t) == s[1] < t[1] \/ (s[1] = t[1] /\ s[2] < t[2])
SlotKey(ns, s) == getLinkKey(ns[s[1]].id, ns[s[1]].links[s[2]])

\* An edge layer that pushes an element for every slot, seen before or not.
StaticConnectionsAll(ns, drag) ==
    {s \in LinkSlots(ns) :
        /\ ns[s[1]].links[s[2]] \in NoteIds(ns)
        /\ ~(ns[s[1]].id \in drag \/ ns[s[1]].links[s[2]] \in drag)}

\* An edge layer that draws towards targets it has not looked up.
StaticConnectionsStale(ns, drag) ==
    {s \in LinkSlots(ns) :
        /\ ~\E t \in LinkSlots(ns) : SlotBefore(t, s) /\ SlotKey(ns, t) = SlotKey(ns, s)
        /\ ~(ns[s[1]].id \in drag \/ ns[s[1]].links[s[2]] \in drag)}

\* StaticConnectionsLayer: the slots that push an element.  A slot marks its key
\* processed before the target and drag checks.
StaticConnections(ns, drag) ==
    {s \in LinkSlots(ns) :
        /\ ~\E t \in LinkSlots(ns) : SlotBefore(t, s) /\ SlotKey(ns, t) = SlotKey(ns, s)
        /\ ns[s[1]].links[s[2]] \in NoteIds(ns)
        /\ ~(ns[s[1]].id \in drag \/ ns[s[1]].links[s[2]] \in drag)}

\* DynamicConnectionsLayer: nothing without a drag; otherwise the slots with an
\* existing target and a dragging endpoint, each key once.
DynamicEligible(ns, drag, s) ==
    /\ ns[s[1]].links[s[2]] \in NoteIds(ns)
    /\ (ns[s[1]].id \in drag \/ ns[s[1]].links[s[2]] \in drag)

DynamicConnections(ns, drag) ==
    IF drag = {} THEN {}
    ELSE {s \in LinkSlots(ns) :
            /\ DynamicEligible(ns, drag, s)
            /\ ~\E t \in LinkSlots(ns) :
                  SlotBefore(t, s) /\ DynamicEligible(ns, drag, t)
                  /\ SlotKey(ns, t) = SlotKey(ns, s)}

\* A static layer that does not leave out the dragged entities.
StaticNodesAll(ns, drag) == {i \in 1 .. Len(ns) : TRUE}

\* StaticNodesLayer / DynamicNodesLayer: the indices of the entities each renders.
StaticNodes(ns, drag) == {i \in 1 .. Len(ns) : ns[i].id \notin drag}
DynamicNodes(ns, overrides) ==
    IF DOMAIN overrides = {} THEN {}
    ELSE {i \in 1 .. Len(ns) : ns[i].id \in DOMAIN overrides}

\* Where entity i of the list is drawn by each layer.
StoredPos(n) == [x |-> n.x, y |-> n.y]


\* A screen transform applied to the sums instead of the means.
toScreenCoordsSum(sx, sy, k) ==
    [xn |-> (sx * Unit - viewBox.x) * SurfaceW, xd |-> viewBox.w,
     yn |-> (sy * Unit - viewBox.y) * SurfaceH, yd |-> viewBox.h]

\* getPointerPosition(e): the pointer in canvas space, through the surface's screen
\* transform (getScreenCTM, the browser's); an event carries the result.
\* toScreenCoords: ((svgX - viewBox.x) * rect.width / viewBox.w, same for y), kept
\* as the fractions xn/xd and yn/yd; svgX = sx/k and svgY = sy/k are the means.
toScreenCoords(sx, sy, k) ==
    [xn |-> (sx * Unit - k * viewBox.x) * SurfaceW, xd |-> k * viewBox.w,
     yn |-> (sy * Unit - k * viewBox.y) * SurfaceH, yd |-> k * viewBox.h]

\* ------------------------------------------------------------------ gestures
\* A pointer-down reaches the svg's own handler only where no node is drawn: a
\* node is a circle of NODE_RADIUS around the position its layer draws it at.
OnNode(p, c) ==
    (p.x - c.x) * (p.x - c.x) + (p.y - c.y) * (p.y - c.y) < NODE_RADIUS * NODE_RADIUS

NodeAt(p) ==
    \/ \E i \in StaticNodes(notes, activeDragIds) : OnNode(p, StoredPos(notes[i]))
    \/ \E i \in DynamicNodes(notes, dragOverrides) : OnNode(p, dragOverrides[notes[i].id])

\* A canvas press that clears the selection in every Tool Mode.
CanvasSelectionAny(shiftKey) == IF ~shiftKey THEN {} ELSE selectedNodeIds

\* handlePointerDown, the selection after the press: cleared without the Shift key
\* in the Select and Default tools, kept otherwise.
CanvasSelection(shiftKey) ==
    IF (mode = "SELECT" \/ mode = "DEFAULT") /\ ~shiftKey THEN {} ELSE selectedNodeIds

\* handlePointerDown
PointerDown(client, coords, shiftKey) ==
    /\ currentView = "GRAPH"
    /\ ptr = "up"
    /\ ~NodeAt(coords)
    /\ ptr' = "canvas"
    /\ activeNodeId' = NoId
    /\ selectionMenuPos' = None
    /\ linkSourceId' = IF mode # "CONNECT" THEN NoId ELSE linkSourceId
    /\ pointerStartPos' = client
    /\ lastPanPoint' = client
    /\ selectedNodeIds' = CanvasSelection(shiftKey)
    /\ IF mode = "SELECT"
       THEN /\ selectionBox' = Some([x |-> coords.x, y |-> coords.y, w |-> 0, h |-> 0])
            /\ isDraggingRef' = TRUE
       ELSE IF mode = "PAN" \/ mode = "DEFAULT"
       THEN /\ isDraggingRef' = TRUE
            /\ UNCHANGED selectionBox
       ELSE /\ isDraggingRef' = FALSE
            /\ UNCHANGED selectionBox
    /\ UNCHANGED <<appVars, viewVars, toolVars, dragVars>>

\* A drag that puts every dragged entity under the pointer.
MovedOverridesSnap(coords) ==
    [id \in DOMAIN dragOverrides \cup (activeDragIds \cap DOMAIN dragStartOffsets) |->
        IF id \in activeDragIds /\ id \in DOMAIN dragStartOffsets
        THEN [x |-> coords.x, y |-> coords.y]
        ELSE dragOverrides[id]]

\* handlePointerMove, the drag branch: every dragged identifier with a recorded
\* offset moves to the pointer minus that offset.
MovedOverrides(coords) ==
    [id \in DOMAIN dragOverrides \cup (activeDragIds \cap DOMAIN dragStartOffsets) |->
        IF id \in activeDragIds /\ id \in DOMAIN dragStartOffsets
        THEN [x |-> coords.x - dragStartOffsets[id].dx, y |-> coords.y - dragStartOffsets[id].dy]
        ELSE dragOverrides[id]]

\* The part of the canvas entities are dragged within.
InRegion(p) ==
    /\ 0 <= p.x /\ p.x <= MaxCell * Cell
    /\ 0 <= p.y /\ p.y <= MaxCell * Cell

\* A pan that moves the origin by the pointer's device pixels, unscaled.
PannedUnscaled(client) ==
    [viewBox EXCEPT !.x = viewBox.x - (client.x - lastPanPoint.x),
                    !.y = viewBox.y - (client.y - lastPanPoint.y)]

\* handlePointerMove, the pan branch.
Panned(client) ==
    LET dx == client.x - lastPanPoint.x
        dy == client.y - lastPanPoint.y
        scaleX == viewBox.w \div SurfaceW
    IN  [viewBox EXCEPT !.x = viewBox.x - dx * scaleX, !.y = viewBox.y - dy * scaleX]

InPanLimit(vb) == vb.x <= PanLimit /\ -vb.x <= PanLimit /\ vb.y <= PanLimit /\ -vb.y <= PanLimit

\* handlePointerMove
PointerMove(client, coords) ==
    /\ currentView = "GRAPH"
    /\ IF ~isDraggingRef
       THEN UNCHANGED <<selectionBox, viewBox, lastPanPoint, dragOverrides>>
       ELSE IF mode = "SELECT" /\ selectionBox # None
       THEN /\ selectionBox' = Some([selectionBox[1] EXCEPT !.w = coords.x - selectionBox[1].x,
                                                             !.h = coords.y - selectionBox[1].y])
            /\ UNCHANGED <<viewBox, lastPanPoint, dragOverrides>>
       ELSE IF mode = "PAN" \/ (mode = "DEFAULT" /\ activeDragIds = {})
       THEN /\ InPanLimit(Panned(client))
            /\ viewBox' = Panned(client)
            /\ lastPanPoint' = client
            /\ UNCHANGED <<selectionBox, dragOverrides>>
       ELSE IF activeDragIds # {} /\ ~isLayoutLocked
       THEN /\ dragOverrides' = MovedOverrides(coords)
            /\ \A id \in DOMAIN MovedOverrides(coords) : InRegion(MovedOverrides(coords)[id])
            /\ UNCHANGED <<selectionBox, viewBox, lastPanPoint>>
       ELSE UNCHANGED <<selectionBox, viewBox, lastPanPoint, dragOverrides>>
    /\ UNCHANGED <<appVars, wheelTicks, toolVars, selectedNodeIds, activeNodeId, linkSourceId,
                   selectionMenuPos, activeDragIds, dragStartOffsets, dragCommitRef,
                   dragOrigin, pointerStartPos, isDraggingRef, ptr>>


\* A commit that hands over the snapshots with their stored positions.
RECURSIVE DragUpdatesStale(_, _, _)
DragUpdatesStale(ns, overrides, ids) ==
    IF ids = {} THEN <<>>
    ELSE LET id == CHOOSE m \in ids : \A o \in ids : m <= o
         IN  (IF id \in NoteIds(ns) THEN <<Find(ns, id)>> ELSE <<>>)
             \o DragUpdatesStale(ns, overrides, ids \ {id})

\* handlePointerUp, the drag commit: one update per override whose entity is still
\* in the list, the entity's snapshot with the override as its position.  (The
\* batch is listed by identifier; the store merges it through a Map, so its order
\* is not observable.)
RECURSIVE DragUpdates(_, _, _)
DragUpdates(ns, overrides, ids) ==
    IF ids = {} THEN <<>>
    ELSE LET id == CHOOSE m \in ids : \A o \in ids : m <= o
         IN  (IF id \in NoteIds(ns)
              THEN <<[Find(ns, id) EXCEPT !.x = overrides[id].x, !.y = overrides[id].y]>>
              ELSE <<>>)
             \o DragUpdates(ns, overrides, ids \ {id})

\* handlePointerUp, the box hit test: the entity's centre is closer than
\* NODE_RADIUS to the closest point of the normalized rectangle.
Min(a, b) == IF a < b THEN a ELSE b
Max(a, b) == IF a > b THEN a ELSE b
Abs(a) == IF a < 0 THEN -a ELSE a

\* A hit test that takes the box as drawn, without normalizing it.
BoxHitsRaw(box, n) ==
    LET closestX == Max(box.x, Min(n.x, box.x + box.w))
        closestY == Max(box.y, Min(n.y, box.y + box.h))
        dx == n.x - closestX
        dy == n.y - closestY
    IN  dx * dx + dy * dy < NODE_RADIUS * NODE_RADIUS

BoxHits(box, n) ==
    LET x == Min(box.x, box.x + box.w)
        y == Min(box.y, box.y + box.h)
        w == Abs(box.w)
        h == Abs(box.h)
        closestX == Max(x, Min(n.x, x + w))
        closestY == Max(y, Min(n.y, y + h))
        dx == n.x - closestX
        dy == n.y - closestY
    IN  dx * dx + dy * dy < NODE_RADIUS * NODE_RADIUS

\* A box selection that never keeps the earlier selection.
BoxSelectionFresh(box, shiftKey) ==
    {notes[i].id : i \in {j \in 1 .. Len(notes) : BoxHits(box, notes[j])}}

BoxSelection(box, shiftKey) ==
    (IF shiftKey THEN selectedNodeIds ELSE {})
    \cup {notes[i].id : i \in {j \in 1 .. Len(notes) : BoxHits(box, notes[j])}}

RECURSIVE SumOver(_, _, _)
SumOver(ns, ids, axis) ==
    IF ns = <<>> THEN 0
    ELSE (IF Head(ns).id \in ids THEN (IF axis = "x" THEN Head(ns).x ELSE Head(ns).y) ELSE 0)
         + SumOver(Tail(ns), ids, axis)

CountOver(ns, ids) == Cardinality({i \in 1 .. Len(ns) : ns[i].id \in ids})

\* handlePointerUp
PointerUp(shiftKey) ==
    /\ currentView = "GRAPH"
    /\ ptr # "up"
    /\ ptr' = "up"
    /\ isDraggingRef' = FALSE
    /\ IF activeDragIds # {}
       THEN /\ IF DragUpdates(notes, dragOverrides, DOMAIN dragOverrides) # <<>>
               THEN /\ CanEmit
                    /\ dragCommitRef' = TRUE
                    /\ Emit(UpdateReq(DragUpdates(notes, dragOverrides, DOMAIN dragOverrides)))
                    /\ UNCHANGED <<activeDragIds, dragOverrides>>
               ELSE /\ activeDragIds' = {}
                    /\ dragOverrides' = EmptyMap
                    /\ UNCHANGED <<pending, dragCommitRef>>
            /\ dragStartOffsets' = EmptyMap
            /\ dragOrigin' = EmptyMap
       ELSE UNCHANGED <<pending, dragVars>>
    /\ IF mode = "SELECT" /\ selectionBox # None
       THEN LET newSelection == BoxSelection(selectionBox[1], shiftKey)
                k == CountOver(notes, newSelection)
            IN  /\ selectedNodeIds' = newSelection
                /\ selectionBox' = None
                /\ selectionMenuPos' =
                      IF newSelection # {} /\ k > 0
                      THEN Some(toScreenCoords(SumOver(notes, newSelection, "x"),
                                               SumOver(notes, newSelection, "y"), k))
                      ELSE selectionMenuPos
       ELSE UNCHANGED <<selectedNodeIds, selectionBox, selectionMenuPos>>
    /\ UNCHANGED <<notes, nextId, currentView, viewVars, toolVars, activeNodeId, linkSourceId,
                   pointerStartPos, lastPanPoint>>

\* A toggle that puts a new identifier first.
ToggledLinksFront(links, id) ==
    IF Includes(links, id) THEN Without(links, id) ELSE <<id>> \o links

\* A toggle that never removes.
ToggledLinksAdd(links, id) == Append(links, id)

\* handleNodePointerDown, Connect mode: source.links with the clicked identifier
\* removed when present, appended otherwise.
ToggledLinks(links, id) ==
    IF Includes(links, id) THEN Without(links, id) ELSE Append(links, id)

\* A pick that disarms the Link-Source on any second pointer-down.
ConnectPickDisarm(source, id) == IF source # NoId THEN NoId ELSE id

\* handleNodePointerDown, Connect mode: the Link-Source after the pointer-down.
ConnectPick(source, id) == IF source # NoId /\ source # id THEN NoId ELSE id

\* handleNodePointerDown, the Drag Session over the resulting selection.
NodesToDrag(newSelection, id) == IF id \in newSelection THEN newSelection ELSE {id}

\* A press that takes a selected node out of the selection.
NodeSelectionToggle(selected, id, shiftKey) ==
    IF id \in selected THEN selected \ {id}
    ELSE IF ~shiftKey THEN {id} ELSE selected \cup {id}

\* handleNodePointerDown outside Connect mode, the selection after the press: a
\* selected node leaves it as it is, an unselected one replaces it or, with
\* Shift, joins it.
NodeSelection(selected, id, shiftKey) ==
    IF id \in selected THEN selected
    ELSE IF ~shiftKey THEN {id} ELSE selected \cup {id}

NodePointerDown(i, client, coords, shiftKey) ==
    LET note == notes[i] IN
    /\ currentView = "GRAPH"
    /\ ptr = "up"
    /\ ptr' = "node"
    /\ IF mode = "CONNECT"
       THEN /\ IF linkSourceId # NoId /\ linkSourceId # note.id
               THEN /\ IF linkSourceId \in NoteIds(notes)
                       THEN LET source == Find(notes, linkSourceId)
                            IN  /\ CanEmit
                                /\ Emit(UpdateReq(<<[source EXCEPT
                                       !.links = ToggledLinks(source.links, note.id)]>>))
                       ELSE UNCHANGED pending
               ELSE UNCHANGED pending
            /\ linkSourceId' = ConnectPick(linkSourceId, note.id)
            /\ UNCHANGED <<selectedNodeIds, selectionMenuPos, activeNodeId, pointerStartPos,
                           dragStartOffsets, dragOrigin, activeDragIds, dragOverrides,
                           isDraggingRef>>
       ELSE LET newSelection == NodeSelection(selectedNodeIds, note.id, shiftKey)
                dragged == NodesToDrag(newSelection, note.id) \cap NoteIds(notes)
            IN  /\ selectedNodeIds' = newSelection
                /\ selectionMenuPos' = None
                /\ activeNodeId' = NoId
                /\ IF ~isLayoutLocked /\ mode # "PAN" /\ mode # "SELECT"
                   THEN /\ pointerStartPos' = client
                        /\ dragStartOffsets' =
                              [id \in dragged |-> [dx |-> coords.x - Find(notes, id).x,
                                                   dy |-> coords.y - Find(notes, id).y]]
                        /\ dragOrigin' = [id \in dragged |-> StoredPos(Find(notes, id))]
                        /\ activeDragIds' = dragged
                        /\ dragOverrides' = [id \in dragged |-> StoredPos(Find(notes, id))]
                        /\ isDraggingRef' = TRUE
                   ELSE UNCHANGED <<pointerStartPos, dragStartOffsets, dragOrigin,
                                    activeDragIds, dragOverrides, isDraggingRef>>
                /\ UNCHANGED <<pending, linkSourceId>>
    /\ UNCHANGED <<notes, nextId, currentView, viewVars, toolVars, selectionBox, lastPanPoint, dragCommitRef>>

\* A pointer-down on the element a node layer draws for entity i: the pointer is
\* on the element, at the position the layer draws it.
StaticNodePointerDown(i, client, shiftKey) ==
    /\ i \in StaticNodes(notes, activeDragIds)
    /\ NodePointerDown(i, client, StoredPos(notes[i]), shiftKey)

DynamicNodePointerDown(i, client, shiftKey) ==
    /\ i \in DynamicNodes(notes, dragOverrides)
    /\ NodePointerDown(i, client, dragOverrides[notes[i].id], shiftKey)


\* Array.from(selectedNodeIds): the identifiers in the Set's insertion order, which
\* the model leaves open: any ordering of the set.
Orderings(ids) ==
    {q \in [1 .. Cardinality(ids) -> ids] : \A a, b \in 1 .. Cardinality(ids) : a # b => q[a] # q[b]}

\* handleBatchDelete up to its setNotes call: nothing for an empty list, and for
\* more than three identifiers only when window.confirm is accepted.
DeleteNotes(idSeq, confirmed) ==
    IF idSeq = <<>> \/ (Len(idSeq) > CONFIRM_OVER /\ ~confirmed)
    THEN UNCHANGED pending
    ELSE CanEmit /\ Emit(DeleteReq(idSeq))

Keys == {"Delete", "Backspace", "Escape", "a"}

\* A key handler whose Escape leaves the Tool Mode as it is.
KeyDownKeepMode(key, inputFocused, confirmed) ==
    /\ currentView = "GRAPH"
    /\ IF selectedNodeIds # {} /\ (key = "Delete" \/ key = "Backspace")
       THEN IF inputFocused
            THEN UNCHANGED <<pending, selectedNodeIds, selectionMenuPos, activeNodeId,
                             linkSourceId, mode>>
            ELSE /\ \E idSeq \in Orderings(selectedNodeIds) : DeleteNotes(idSeq, confirmed)
                 /\ selectedNodeIds' = {}
                 /\ selectionMenuPos' = None
                 /\ activeNodeId' = NoId
                 /\ UNCHANGED <<linkSourceId, mode>>
       ELSE IF key = "Escape"
       THEN /\ selectedNodeIds' = {}
            /\ activeNodeId' = NoId
            /\ selectionMenuPos' = None
            /\ linkSourceId' = NoId
            /\ mode' = mode
            /\ UNCHANGED pending
       ELSE UNCHANGED <<pending, selectedNodeIds, selectionMenuPos, activeNodeId,
                        linkSourceId, mode>>
    /\ UNCHANGED <<notes, nextId, currentView, viewVars, isLayoutLocked, selectionBox,
                   dragVars, refVars, ptr>>

\* handleKeyDown; inputFocused: document.activeElement is an INPUT or TEXTAREA.
KeyDown(key, inputFocused, confirmed) ==
    /\ currentView = "GRAPH"
    /\ IF selectedNodeIds # {} /\ (key = "Delete" \/ key = "Backspace")
       THEN IF inputFocused
            THEN UNCHANGED <<pending, selectedNodeIds, selectionMenuPos, activeNodeId,
                             linkSourceId, mode>>
            ELSE /\ \E idSeq \in Orderings(selectedNodeIds) : DeleteNotes(idSeq, confirmed)
                 /\ selectedNodeIds' = {}
                 /\ selectionMenuPos' = None
                 /\ activeNodeId' = NoId
                 /\ UNCHANGED <<linkSourceId, mode>>
       ELSE IF key = "Escape"
       THEN /\ selectedNodeIds' = {}
            /\ activeNodeId' = NoId
            /\ selectionMenuPos' = None
            /\ linkSourceId' = NoId
            /\ mode' = "DEFAULT"
            /\ UNCHANGED pending
       ELSE UNCHANGED <<pending, selectedNodeIds, selectionMenuPos, activeNodeId,
                        linkSourceId, mode>>
    /\ UNCHANGED <<notes, nextId, currentView, viewVars, isLayoutLocked, selectionBox,
                   dragVars, refVars, ptr>>

\* Toolbar buttons (a click: the pointer is not down on the canvas).
ToggleLock ==
    /\ currentView = "GRAPH" /\ ptr = "up"
    /\ isLayoutLocked' = ~isLayoutLocked
    /\ UNCHANGED <<appVars, viewVars, mode, pickVars, dragVars, refVars, ptr>>

SetMode(m) ==
    /\ currentView = "GRAPH" /\ ptr = "up"
    /\ mode' = m
    /\ UNCHANGED <<appVars, viewVars, isLayoutLocked, pickVars, dragVars, refVars, ptr>>

ToggleConnect ==
    /\ currentView = "GRAPH" /\ ptr = "up"
    /\ mode' = IF mode = "CONNECT" THEN "DEFAULT" ELSE "CONNECT"
    /\ linkSourceId' = NoId
    /\ UNCHANGED <<appVars, viewVars, isLayoutLocked, selectedNodeIds, activeNodeId,
                   selectionBox, selectionMenuPos, dragVars, refVars, ptr>>

\* onWheel: deltaY > 0 scales the viewBox's extent by 1.05, otherwise by 0.95.
Wheel(deltaPositive) ==
    /\ currentView = "GRAPH"
    /\ wheelTicks < MaxZoomTicks
    /\ wheelTicks' = wheelTicks + 1
    /\ viewBox' = [viewBox EXCEPT
                     !.w = (viewBox.w * (IF deltaPositive THEN WheelGrow ELSE WheelShrink)) \div ZoomDen,
                     !.h = (viewBox.h * (IF deltaPositive THEN WheelGrow ELSE WheelShrink)) \div ZoomDen]
    /\ UNCHANGED <<appVars, toolVars, pickVars, dragVars, refVars, ptr>>

\* handleNodeDoubleClick, on the element either node layer draws for entity i.
NodeDoubleClick(i) ==
    /\ currentView = "GRAPH" /\ ptr = "up"
    /\ i \in StaticNodes(notes, activeDragIds) \cup DynamicNodes(notes, dragOverrides)
    /\ activeNodeId' = notes[i].id
    /\ UNCHANGED <<appVars, viewVars, toolVars, selectedNodeIds, linkSourceId, selectionBox,
                   selectionMenuPos, dragVars, refVars, ptr>>

\* The detail popup is drawn for an existing active node while no menu is open.
PopupOpen == activeNodeId \in NoteIds(notes) /\ selectionMenuPos = None

PopupClose ==
    /\ currentView = "GRAPH" /\ ptr = "up" /\ PopupOpen
    /\ activeNodeId' = NoId
    /\ UNCHANGED <<appVars, viewVars, toolVars, selectedNodeIds, linkSourceId, selectionBox,
                   selectionMenuPos, dragVars, refVars, ptr>>

PopupDelete ==
    /\ currentView = "GRAPH" /\ ptr = "up" /\ PopupOpen
    /\ DeleteNotes(<<activeNodeId>>, TRUE)
    /\ activeNodeId' = NoId
    /\ UNCHANGED <<notes, nextId, currentView, viewVars, toolVars, selectedNodeIds,
                   linkSourceId, selectionBox, selectionMenuPos, dragVars, refVars, ptr>>

\* "Edit Full Note": onSelectNote -> handleSelectNote switches App to the editor,
\* which unmounts the canvas.
PopupEdit ==
    /\ currentView = "GRAPH" /\ ptr = "up" /\ PopupOpen
    /\ currentView' = "EDITOR"
    /\ UNCHANGED <<notes, pending, nextId, viewVars, toolVars, pickVars, dragVars, refVars, ptr>>

\* handleChangeView('GRAPH'): the canvas mounts again, with fresh local state.
ShowGraph ==
    /\ currentView = "EDITOR"
    /\ currentView' = "GRAPH"
    /\ viewBox' = [x |-> 0, y |-> 0, w |-> VIEW_W * Unit, h |-> VIEW_H * Unit]
    /\ wheelTicks' = 0
    /\ mode' = "DEFAULT"
    /\ isLayoutLocked' = FALSE
    /\ selectedNodeIds' = {}
    /\ activeNodeId' = NoId
    /\ linkSourceId' = NoId
    /\ activeDragIds' = {}
    /\ dragOverrides' = EmptyMap
    /\ selectionBox' = None
    /\ selectionMenuPos' = None
    /\ pointerStartPos' = [x |-> 0, y |-> 0]
    /\ isDraggingRef' = FALSE
    /\ lastPanPoint' = [x |-> 0, y |-> 0]
    /\ dragStartOffsets' = EmptyMap
    /\ dragCommitRef' = FALSE
    /\ dragOrigin' = EmptyMap
    /\ UNCHANGED <<notes, pending, nextId, ptr>>

\* The bulk-action menu's buttons.
CopiesPending ==
    Cardinality({<<k, a>> \in (1 .. Len(pending)) \X (1 .. MaxNotes) :
                    pending[k].kind = "duplicate" /\ a <= Len(pending[k].ids)})

MenuDuplicate ==
    /\ currentView = "GRAPH" /\ ptr = "up" /\ selectionMenuPos # None
    /\ nextId + CopiesPending + Cardinality(selectedNodeIds) - 1 <= MaxNotes
    /\ CanEmit
    /\ \E idSeq \in Orderings(selectedNodeIds) : Emit(DuplicateReq(idSeq))
    /\ selectionMenuPos' = None
    /\ UNCHANGED <<notes, nextId, currentView, viewVars, toolVars, selectedNodeIds,
                   activeNodeId, linkSourceId, selectionBox, dragVars, refVars, ptr>>

MenuDelete ==
    /\ currentView = "GRAPH" /\ ptr = "up" /\ selectionMenuPos # None
    /\ \E idSeq \in Orderings(selectedNodeIds), confirmed \in BOOLEAN :
          DeleteNotes(idSeq, confirmed)
    /\ selectionMenuPos' = None
    /\ selectedNodeIds' = {}
    /\ UNCHANGED <<notes, nextId, currentView, viewVars, toolVars, activeNodeId,
                   linkSourceId, selectionBox, dragVars, refVars, ptr>>

\* ------------------------------------------------------------- the store acts
\* The head updater runs against the current list.
Applied(prev, req, fresh) ==
    IF req.kind = "update" THEN BatchUpdateNotes(prev, req.updates)
    ELSE IF req.kind = "delete" THEN BatchDelete(prev, req.ids)
    ELSE BatchDuplicate(prev, req.ids, fresh)

\* An effect that never clears the session.
ReconcileIdle == UNCHANGED <<dragOverrides, activeDragIds, dragCommitRef>>

\* useEffect(..., [notes]): on a new entity list, a pending drag commit is
\* reconciled by clearing the overrides and the drag set.
Reconcile ==
    IF currentView = "GRAPH" /\ dragCommitRef
    THEN /\ dragOverrides' = EmptyMap
         /\ activeDragIds' = {}
         /\ dragCommitRef' = FALSE
    ELSE UNCHANGED <<dragOverrides, activeDragIds, dragCommitRef>>

\* React runs the head updater, renders the canvas with the new list and runs
\* the canvas's effect.
StoreApply ==
    /\ pending # <<>>
    /\ notes' = Applied(notes, Head(pending), nextId)
    /\ nextId' = nextId + (Len(notes') - Len(notes)) * (IF Head(pending).kind = "duplicate" THEN 1 ELSE 0)
    /\ pending' = Tail(pending)
    /\ Reconcile
    /\ UNCHANGED <<currentView, viewVars, toolVars, pickVars, dragStartOffsets, dragOrigin,
                   refVars, ptr>>

\* ------------------------------------------------------------ specifications
\* Pointer presses and releases with device positions drawn from C and canvas
\* positions from P.
Presses(C, P) ==
    \/ \E c \in C, p \in P, s \in BOOLEAN : PointerDown(c, p, s)
    \/ \E s \in BOOLEAN : PointerUp(s)
    \/ \E i \in 1 .. Len(notes), c \in C, s \in BOOLEAN : StaticNodePointerDown(i, c, s)
    \/ \E i \in 1 .. Len(notes), c \in C, s \in BOOLEAN : DynamicNodePointerDown(i, c, s)

\* Pointer events: presses, releases and moves.
Gestures(C, P) ==
    \/ Presses(C, P)
    \/ \E c \in C, p \in P : PointerMove(c, p)

Keyboard == \E k \in Keys, f \in BOOLEAN, c \in BOOLEAN : KeyDown(k, f, c)

Toolbar ==
    \/ ToggleLock
    \/ \E m \in {"PAN", "DEFAULT", "SELECT"} : SetMode(m)
    \/ ToggleConnect

Overlays ==
    \/ \E i \in 1 .. Len(notes) : NodeDoubleClick(i)
    \/ PopupClose
    \/ PopupDelete
    \/ PopupEdit
    \/ ShowGraph
    \/ MenuDuplicate
    \/ MenuDelete

Origin == [x |-> 0, y |-> 0]

\* Every event of the canvas and the store.
NextAll ==
    \/ Gestures(ClientPts, Pts)
    \/ Keyboard
    \/ Toolbar
    \/ \E d \in BOOLEAN : Wheel(d)
    \/ Overlays
    \/ StoreApply

SpecAll == Init /\ [][NextAll]_vars

InitPlain ==
    /\ notes = <<Note(1, 0, 0, <<>>), Note(2, Cell, 0, <<>>)>>
    /\ pending = <<>>
    /\ nextId = 3
    /\ currentView = "GRAPH"
    /\ ptr = "up"
    /\ Mounted

\* The drag protocol: pointer and keyboard events in the Default tool, the layout
\* lock, and the store.  The pointer's device position is held at the surface's
\* origin: no handler of a drag, a selection or a link toggle reads it, only
\* panning does.
Next ==
    \/ Gestures({Origin}, Pts)
    \/ Keyboard
    \/ ToggleLock
    \/ StoreApply

Spec == InitPlain /\ [][Next]_vars

\* The Delete key with the focus outside a text field.
DeleteKey == \E c \in BOOLEAN : KeyDown("Delete", FALSE, c)

\* The commit protocol: drags in the Default tool with entities deleted under
\* them.
NextCommit ==
    \/ Gestures({Origin}, Pts)
    \/ DeleteKey
    \/ StoreApply

SpecCommit == InitPlain /\ [][NextCommit]_vars

\* The link protocol: presses and releases with the Connect tool's button and the
\* Delete key, from each of the opened entity lists.  The pointer is not moved
\* while it is down: no link handler and no edge layer reads an override's value.
NextLinks ==
    \/ Presses({Origin}, Pts)
    \/ DeleteKey
    \/ ToggleConnect
    \/ StoreApply

SpecLinks == Init /\ [][NextLinks]_vars

\* The tool protocol: every press, release and key event, the mode buttons and
\* the detail popup's double click, over one entity and a stretch of empty canvas
\* beside it.  The pointer is not moved while it is down: no tool switch reads
\* how far a gesture went.
ModePts == Pts \cup {[x |-> (MaxCell + 1) * Cell, y |-> 0]}

InitOne ==
    /\ notes = <<Note(1, 0, 0, <<>>)>>
    /\ pending = <<>>
    /\ nextId = 2
    /\ currentView = "GRAPH"
    /\ ptr = "up"
    /\ Mounted

NextModes ==
    \/ Presses({Origin}, ModePts)
    \/ Keyboard
    \/ \E m \in {"PAN", "DEFAULT", "SELECT"} : SetMode(m)
    \/ ToggleConnect
    \/ \E i \in 1 .. Len(notes) : NodeDoubleClick(i)
    \/ StoreApply

SpecModes == InitOne /\ [][NextModes]_vars

\* The rubber band: the Select tool over two entities, the pointer pressed on the
\* empty canvas, moved and released at corners beside, between and beyond them
\* (one of them exactly NODE_RADIUS from an entity's centre).
BoxX == {0, 50, 95, 130, 300}
BoxY == {0, 50, 100}
BoxPts == [x : BoxX, y : BoxY]

InitBox ==
    /\ notes = <<Note(1, 100, 100, <<>>), Note(2, 300, 100, <<>>)>>
    /\ pending = <<>>
    /\ nextId = 3
    /\ currentView = "GRAPH"
    /\ ptr = "up"
    /\ Mounted

NextBox ==
    \/ \E p \in BoxPts, s \in BOOLEAN : PointerDown(Origin, p, s)
    \/ \E p \in BoxPts : PointerMove(Origin, p)
    \/ \E s \in BOOLEAN : PointerUp(s)
    \/ SetMode("SELECT")

SpecBox == InitBox /\ [][NextBox]_vars

\* Panning: the pointer pressed on the empty canvas beside the one entity and
\* moved in steps of PanPx device pixels along either axis, with the Pan tool or
\* the Default tool, at the extents the wheel produces (the wheel is turned
\* while the origin is where it started, which keeps the origins reached few).
PanPx == 10
PanClient == [x : {0, PanPx}, y : {0, PanPx}]
PanAt == [x |-> (MaxCell + 1) * Cell, y |-> 0]

NextPan ==
    \/ \E c \in PanClient, s \in BOOLEAN : PointerDown(c, PanAt, s)
    \/ \E c \in PanClient : PointerMove(c, PanAt)
    \/ \E s \in BOOLEAN : PointerUp(s)
    \/ \E d \in BOOLEAN : viewBox.x = 0 /\ viewBox.y = 0 /\ Wheel(d)
    \/ SetMode("PAN")

SpecPan == InitOne /\ [][NextPan]_vars

\* The keyboard: one entity more than handleBatchDelete removes without asking,
\* selected by presses with and without Shift, every key with and without a
\* focused text input, and the store.
KeyNotes == CONFIRM_OVER + 1
KeyPts == {[x |-> KeyNotes * Cell, y |-> 0]}

InitKeys ==
    /\ notes = [i \in 1 .. KeyNotes |-> Note(i, (i - 1) * Cell, 0, <<>>)]
    /\ pending = <<>>
    /\ nextId = KeyNotes + 1
    /\ currentView = "GRAPH"
    /\ ptr = "up"
    /\ Mounted

NextKeys ==
    \/ Presses({Origin}, KeyPts)
    \/ Keyboard
    \/ StoreApply

SpecKeys == InitKeys /\ [][NextKeys]_vars

\* The store's updaters on their own: an entity list of up to StoreLen entities
\* with distinct identifiers and one queued request that names up to StoreLen
\* identifiers, listed or not, repeated or not.
StoreLen == 2
StoreSeqs(S) == UNION {[1 .. n -> S] : n \in 0 .. StoreLen}
StoreLists ==
    {ns \in StoreSeqs([id : Ids, x : Coord, y : {0}, links : {<<>>}]) :
        \A i, j \in 1 .. Len(ns) : i # j => ns[i].id # ns[j].id}
StoreBatches ==
    StoreSeqs([id : Ids, x : {(MaxCell + 1) * Cell}, y : {Cell}, links : {<<>>}]) \ {<<>>}
StoreRequests ==
    {UpdateReq(b) : b \in StoreBatches}
    \cup {DeleteReq(q) : q \in StoreSeqs(Ids)}
    \cup {DuplicateReq(q) : q \in StoreSeqs(Ids)}

InitStore ==
    /\ notes \in StoreLists
    /\ pending \in {<<r>> : r \in StoreRequests}
    /\ nextId = MaxNotes + 1
    /\ currentView = "GRAPH"
    /\ ptr = "up"
    /\ Mounted

NextStore == StoreApply

SpecStore == InitStore /\ [][NextStore]_vars

\* Clicks on nodes of a selection: two entities, the rubber band that selects
\* them, and presses on nodes where Shift is held only over a node that is
\* selected already.  A press without Shift on an unselected node leaves that
\* node alone selected, so whenever the pointer is down on a node and more than
\* one entity is selected, the pressed node was part of that selection before.
NextClick ==
    \/ SetMode("SELECT")
    \/ \E p \in ModePts, s \in BOOLEAN : PointerDown(Origin, p, s)
    \/ \E p \in ModePts : PointerMove(Origin, p)
    \/ \E s \in BOOLEAN : PointerUp(s)
    \/ \E i \in 1 .. Len(notes), s \in BOOLEAN :
          (s => notes[i].id \in selectedNodeIds) /\ StaticNodePointerDown(i, Origin, s)
    \/ \E i \in 1 .. Len(notes), s \in BOOLEAN :
          (s => notes[i].id \in selectedNodeIds) /\ DynamicNodePointerDown(i, Origin, s)
    \/ StoreApply

SpecClick == InitPlain /\ [][NextClick]_vars

\* Presses on nodes: two entities, presses and releases with and without Shift
\* under the Default, Pan and Select tools, the rubber band that opens the menu,
\* the double click that opens the detail view, and the store.  The pointer
\* moves only while it is down on the canvas: the press on a node is what is
\* looked at, not the drag after it.
NextPress ==
    \/ Presses({Origin}, ModePts)
    \/ \E p \in ModePts : ptr = "canvas" /\ PointerMove(Origin, p)
    \/ \E m \in {"PAN", "SELECT"} : SetMode(m)
    \/ \E i \in 1 .. Len(notes) : NodeDoubleClick(i)
    \/ StoreApply

SpecPress == InitPlain /\ [][NextPress]_vars

\* Drags of several entities: two entities one cell apart across the pointer's
\* line of travel, so that both can be carried along it together; the pointer
\* visits that line and the second entity's place; presses on nodes, moves,
\* releases, the Escape key and the store.  The pointer is released once the
\* store has applied the commit before, so at most one update is in flight.
RigidPts == Pts \cup {[x |-> 0, y |-> Cell]}

InitRigid ==
    /\ notes = <<Note(1, 0, 0, <<>>), Note(2, 0, Cell, <<>>)>>
    /\ pending = <<>>
    /\ nextId = 3
    /\ currentView = "GRAPH"
    /\ ptr = "up"
    /\ Mounted

NextRigid ==
    \/ \E i \in 1 .. Len(notes), s \in BOOLEAN : StaticNodePointerDown(i, Origin, s)
    \/ \E i \in 1 .. Len(notes), s \in BOOLEAN : DynamicNodePointerDown(i, Origin, s)
    \/ \E p \in RigidPts : PointerMove(Origin, p)
    \/ pending = <<>> /\ PointerUp(FALSE)
    \/ KeyDown("Escape", FALSE, FALSE)
    \/ StoreApply

SpecRigid == InitRigid /\ [][NextRigid]_vars

\* The same drags with React's scheduling: an updater handed to setNotes is
\* eventually run, and the render and the effect on [notes] follow it.
SpecRigidLive == SpecRigid /\ WF_vars(StoreApply)

\* Deleting from the canvas: the Delete key, the bulk menu a rubber band opens
\* and the detail popup a double click opens, with every pointer event in the
\* Default and Select tools, and the store.
NextDelete ==
    \/ Gestures({Origin}, ModePts)
    \/ \E m \in {"DEFAULT", "SELECT"} : SetMode(m)
    \/ \E i \in 1 .. Len(notes) : NodeDoubleClick(i)
    \/ PopupDelete
    \/ MenuDelete
    \/ DeleteKey
    \/ StoreApply

SpecDelete == InitOne /\ [][NextDelete]_vars

\* ------------------------------------------------------------------ claims
\* The positions at which the two node layers together draw entity id.
DrawnAt(id) ==
    {StoredPos(notes[i]) : i \in {j \in StaticNodes(notes, activeDragIds) : notes[j].id = id}}
    \cup {dragOverrides[notes[i].id] :
             i \in {j \in DynamicNodes(notes, dragOverrides) : notes[j].id = id}}

\* A step's vocabulary: the pointer is released; one request is handed to the
\* store; that request.
Release == ptr # "up" /\ ptr' = "up"
Emitted == Len(pending') = Len(pending) + 1
EmittedReq == pending'[Len(pending')]
Present == activeDragIds \cap NoteIds(notes)

\* C1: from the pointer-up that commits a drag until the changed entity list is
\* observed, every dragged entity is drawn at exactly its last override,
\* whatever else happens in between.
NoFlicker ==
    [][(dragCommitRef /\ dragCommitRef')
          => \A id \in Present \cap NoteIds(notes') : DrawnAt(id)' = {dragOverrides[id]}]_vars

\* C2: when the reconciliation clears the overrides, every cleared entity that
\* still exists is stored at the position its override held.
PixelIdenticalSwap ==
    [][(currentView = "GRAPH" /\ dragCommitRef /\ ~dragCommitRef')
          => \A id \in DOMAIN dragOverrides \cap NoteIds(notes') :
                StoredPos(Find(notes', id)) = dragOverrides[id]]_vars

\* The batch a pointer-up hands over holds, once each, the current snapshot of
\* every dragged entity still in the list with only its position replaced by the
\* override, and nothing else.
CommitBatch ==
    /\ Emitted
    /\ EmittedReq.kind = "update"
    /\ LET batch == EmittedReq.updates
       IN  /\ Len(batch) = Cardinality(Present)
           /\ \A k \in 1 .. Len(batch) : batch[k].id \in Present
           /\ \A id \in Present :
                 \E k \in 1 .. Len(batch) :
                    batch[k] = [id |-> id, x |-> dragOverrides[id].x, y |-> dragOverrides[id].y,
                                links |-> Find(notes, id).links]

\* C3 as stated: a pointer-up with a non-empty Drag Session emits one such batch.
CommitOnEveryRelease ==
    [][(Release /\ activeDragIds # {}) => CommitBatch]_vars

\* C3: a pointer-up with a non-empty Drag Session emits one such batch when a
\* dragged entity is still in the list; when none is, it emits nothing and
\* clears the Drag Session.
CommitOnRelease ==
    [][(Release /\ activeDragIds # {})
          => IF Present # {} THEN CommitBatch
             ELSE pending' = pending /\ activeDragIds' = {} /\ dragOverrides' = EmptyMap]_vars

\* A two-entity drag of which one entity was deleted is committed for the other.
CommitOnReleaseWitness ==
    /\ ptr = "up"
    /\ dragCommitRef
    /\ Cardinality(activeDragIds) = 2
    /\ pending # <<>>
    /\ pending[Len(pending)].kind = "update"
    /\ Len(pending[Len(pending)].updates) = 1
    /\ \E id \in activeDragIds \cap NoteIds(notes) :
          StoredPos(Find(notes, id)) # dragOverrides[id]

\* C4: a drag gesture hands over at most one batch: a pointer-up emits only for
\* a Drag Session that has not been committed, one whose offsets are still held.
OneCommitPerGesture ==
    [][(Release /\ Emitted) => dragStartOffsets # EmptyMap]_vars

\* C5: an update is handed over only by the pointer-up that ends a drag or by a
\* Connect-mode pointer-down on a node, and no stored position changes while the
\* pointer is held on a node.
UpdatesOnlyAtGestureEnd ==
    [][/\ (Emitted /\ EmittedReq.kind = "update")
             => \/ ptr = "node" /\ ptr' = "up" /\ dragStartOffsets # EmptyMap
                \/ ptr = "up" /\ ptr' = "node" /\ mode = "CONNECT"
       /\ (ptr = "node" /\ ptr' = "node")
             => \A id \in NoteIds(notes) \cap NoteIds(notes') :
                   StoredPos(Find(notes', id)) = StoredPos(Find(notes, id))]_vars

\* C6: a drag released where it began emits the entities' original stored
\* positions, so that applying the batch changes no stored entity; a pointer-up
\* with an empty Drag Session emits nothing.
StationaryDragIsNoOp ==
    [][Release
          => IF activeDragIds = {} THEN pending' = pending
             ELSE (dragStartOffsets # EmptyMap /\ dragOverrides = dragOrigin /\ Emitted)
                     => /\ \A k \in 1 .. Len(EmittedReq.updates) :
                              StoredPos(EmittedReq.updates[k])
                                 = dragOrigin[EmittedReq.updates[k].id]
                        /\ BatchUpdateNotes(notes, EmittedReq.updates) = notes]_vars

\* A pointer-down on the element drawn for entity i of the list.
NodePress(i) ==
    \E s \in BOOLEAN : StaticNodePointerDown(i, Origin, s) \/ DynamicNodePointerDown(i, Origin, s)

\* A link is recorded between a and b, in either entity's adjacency.
Linked(a, b) == Includes(Find(notes, a).links, b) \/ Includes(Find(notes, b).links, a)
EdgesDrawn(a, b) ==
    Cardinality({s \in StaticConnections(notes, activeDragIds) : SlotKey(notes, s) = <<a, b>>})
    + Cardinality({s \in DynamicConnections(notes, activeDragIds) : SlotKey(notes, s) = <<a, b>>})

\* C7: for each pair of existing entities with a link recorded in either
\* adjacency, however often, the static and dynamic edge layers together draw
\* exactly one edge element, whether or not an endpoint is dragged.
EdgeDeduplication ==
    \A a \in NoteIds(notes), b \in NoteIds(notes) :
        (a < b /\ Linked(a, b)) => EdgesDrawn(a, b) = 1

\* A pair linked in both directions, one of them twice, with an endpoint dragged.
EdgeDeduplicationWitness ==
    /\ Len(notes) >= 2
    /\ Len(notes[1].links) >= 2
    /\ Includes(notes[1].links, notes[2].id)
    /\ Includes(notes[2].links, notes[1].id)
    /\ activeDragIds = {notes[1].id}
    /\ ptr = "node"

\* A Connect-mode pointer-down on entity i while another, existing entity is the
\* Link-Source.
TogglePress(i) ==
    /\ mode = "CONNECT"
    /\ linkSourceId \in NoteIds(notes)
    /\ linkSourceId # notes[i].id
    /\ NodePress(i)

\* C8: picking A then B in Connect mode when A's adjacency lacks B emits A's
\* adjacency with B appended; the store replaces A by the emitted snapshot; and
\* picking A then B on that result emits A's original adjacency.
LinkToggleRoundTrip ==
    [][/\ \A i \in 1 .. Len(notes) :
             TogglePress(i)
                => LET b == notes[i].id
                       L == Find(notes, linkSourceId).links
                       E == EmittedReq.updates[1].links
                   IN  /\ Emitted
                       /\ ~Includes(L, b) => E = L \o <<b>>
                       /\ (L # <<>> /\ L[Len(L)] = b /\ ~Includes(SubSeq(L, 1, Len(L) - 1), b))
                             => E = SubSeq(L, 1, Len(L) - 1)
       /\ (pending # <<>> /\ pending' = Tail(pending) /\ Head(pending).kind = "update")
             => \A k \in 1 .. Len(Head(pending).updates) :
                   Head(pending).updates[k].id \in NoteIds(notes)
                      => Find(notes', Head(pending).updates[k].id) = Head(pending).updates[k]]_vars

\* A link was added behind an older one and applied, and the second pick has
\* emitted the adjacency without it.
LinkToggleRoundTripWitness ==
    /\ mode = "CONNECT"
    /\ ptr = "node"
    /\ linkSourceId = NoId
    /\ Len(notes) >= 2
    /\ notes[1].links = <<MaxNotes + 1, notes[2].id>>
    /\ pending = <<UpdateReq(<<[notes[1] EXCEPT !.links = <<MaxNotes + 1>>]>>)>>

\* C9: a Connect-mode pointer-down on a node other than the armed Link-Source
\* emits exactly one update, of the source alone with the clicked identifier
\* toggled in its adjacency, when the source exists and none when it does not;
\* either way the Link-Source is cleared.
ConnectToggleEmitsOne ==
    [][\A i \in 1 .. Len(notes) :
          (mode = "CONNECT" /\ linkSourceId # NoId /\ linkSourceId # notes[i].id /\ NodePress(i))
             => /\ linkSourceId' = NoId
                /\ IF linkSourceId \in NoteIds(notes)
                   THEN LET b == notes[i].id
                            src == Find(notes, linkSourceId)
                            Keep(l) == l # b
                            toggled == IF b \in Range(src.links)
                                       THEN SelectSeq(src.links, Keep)
                                       ELSE Append(src.links, b)
                        IN  pending' = Append(pending,
                                [kind |-> "update", ids |-> <<>>,
                                 updates |-> <<[id |-> src.id, x |-> src.x, y |-> src.y,
                                                links |-> toggled]>>])
                   ELSE pending' = pending]_vars

\* The armed source was deleted before the pointer-down: nothing was emitted and
\* the Link-Source is cleared.
ConnectToggleEmitsOneWitness ==
    /\ mode = "CONNECT"
    /\ ptr = "node"
    /\ linkSourceId = NoId
    /\ Len(notes) = 1
    /\ pending = <<>>
    /\ selectedNodeIds = {}

\* C10: a Connect-mode pointer-down on a node arms it as Link-Source when none is
\* armed and leaves the armed one armed when it is the node itself; it emits no
\* update, starts no Drag Session and leaves the selection unchanged.
ConnectArmIsFrame ==
    [][\A i \in 1 .. Len(notes) :
          (mode = "CONNECT" /\ (linkSourceId = NoId \/ linkSourceId = notes[i].id) /\ NodePress(i))
             => /\ linkSourceId' = notes[i].id
                /\ pending' = pending
                /\ UNCHANGED <<activeDragIds, dragOverrides, dragStartOffsets, isDraggingRef>>
                /\ selectedNodeIds' = selectedNodeIds]_vars

\* A node is armed as Link-Source by a pointer-down still held.
ConnectArmIsFrameWitness ==
    /\ mode = "CONNECT"
    /\ ptr = "node"
    /\ linkSourceId \in NoteIds(notes)
    /\ selectedNodeIds # {}

\* C11: in every reachable state a Link-Source is set only while the Tool Mode
\* is Connect.
LinkSourceOnlyInConnect == linkSourceId # NoId => mode = "CONNECT"

\* C12: every switch of the Tool Mode leaves the Link-Source unset and no
\* selection box in progress.
ModeSwitchClearsTransients ==
    [][mode' # mode => (linkSourceId' = NoId /\ selectionBox' = None)]_vars

\* C13: every switch of the Tool Mode leaves the selection set empty.
ModeSwitchClearsSelection ==
    [][mode' # mode => selectedNodeIds' = {}]_vars

\* C14 as stated: a pointer-down on empty canvas without the Shift key leaves the
\* selection empty in any Tool Mode, and with it leaves the selection unchanged.
CanvasPressClearsSelection ==
    [][\A p \in ModePts :
          /\ PointerDown(Origin, p, FALSE) => selectedNodeIds' = {}
          /\ PointerDown(Origin, p, TRUE) => selectedNodeIds' = selectedNodeIds]_vars

\* C14: a pointer-down on empty canvas without the Shift key leaves the selection
\* empty in the Default and Select tools and unchanged in the Pan and Connect
\* tools; with the Shift key it leaves the selection unchanged in every tool.
CanvasPressSelection ==
    [][\A p \in ModePts :
          /\ PointerDown(Origin, p, FALSE)
                => selectedNodeIds' = IF mode \in {"DEFAULT", "SELECT"} THEN {}
                                      ELSE selectedNodeIds
          /\ PointerDown(Origin, p, TRUE) => selectedNodeIds' = selectedNodeIds]_vars

\* The pointer is down on empty canvas in the Pan tool and an entity is still
\* selected.
CanvasPressSelectionWitness ==
    /\ ptr = "canvas"
    /\ mode = "PAN"
    /\ selectedNodeIds # {}
    /\ isDraggingRef

\* C20: after an Escape key press the selection is empty, no detail view and no
\* contextual menu are open, the Link-Source is unset and the Tool Mode is
\* Default, whatever the state before and wherever the focus is.
EscapeResets ==
    [][(\E f \in BOOLEAN, c \in BOOLEAN : KeyDown("Escape", f, c))
          => /\ selectedNodeIds' = {}
             /\ activeNodeId' = NoId
             /\ selectionMenuPos' = None
             /\ linkSourceId' = NoId
             /\ mode' = "DEFAULT"]_vars

\* Escape was pressed during a rubber-band gesture: the Default tool with the
\* box still held.
EscapeResetsWitness ==
    /\ mode = "DEFAULT"
    /\ selectionBox # None
    /\ selectedNodeIds = {}
    /\ activeNodeId = NoId
    /\ selectionMenuPos = None
    /\ linkSourceId = NoId

\* The squared distance from a point to the closest point of the rectangle
\* spanned by the box's two corners, and the entities nearer than the radius.
Gap(v, a, b) ==
    IF v < a /\ v < b THEN (IF a < b THEN a - v ELSE b - v)
    ELSE IF v > a /\ v > b THEN (IF a > b THEN v - a ELSE v - b)
    ELSE 0
BoxGap2(box, n) ==
    Gap(n.x, box.x, box.x + box.w) * Gap(n.x, box.x, box.x + box.w)
    + Gap(n.y, box.y, box.y + box.h) * Gap(n.y, box.y, box.y + box.h)
HitIds(box) == {notes[i].id : i \in {j \in 1 .. Len(notes) : BoxGap2(box, notes[j]) < 30 * 30}}
Backwards(box) == [x |-> box.x + box.w, y |-> box.y + box.h, w |-> -box.w, h |-> -box.h]
BoxRelease(s) == mode = "SELECT" /\ selectionBox # None /\ PointerUp(s)

\* C15: on release of a rubber band drawn in any direction, an entity outside the
\* seed is selected exactly when the squared distance from its stored centre to
\* the closest point of the normalized rectangle is below 30 squared; a node at
\* (100,100) is hit by (0,0)-(95,100) and not by (0,0)-(50,50); the box drawn
\* backwards hits what the same box drawn forwards hits.
BoxHitTest ==
    /\ BoxHits([x |-> 0, y |-> 0, w |-> 95, h |-> 100], Note(1, 100, 100, <<>>))
    /\ ~BoxHits([x |-> 0, y |-> 0, w |-> 50, h |-> 50], Note(1, 100, 100, <<>>))
    /\ [][\A s \in BOOLEAN :
             BoxRelease(s)
                => /\ \A id \in NoteIds(notes) \ (IF s THEN selectedNodeIds ELSE {}) :
                         id \in selectedNodeIds' <=> id \in HitIds(selectionBox[1])
                   /\ \A i \in 1 .. Len(notes) :
                         BoxHits(Backwards(selectionBox[1]), notes[i])
                            <=> BoxHits(selectionBox[1], notes[i])]_vars

\* A band has been released over the node at (100,100) alone: it is the
\* selection, and the menu sits at its centre.
BoxHitTestWitness ==
    /\ mode = "SELECT"
    /\ ptr = "up"
    /\ selectionBox = None
    /\ selectedNodeIds = {1}
    /\ selectionMenuPos = Some(toScreenCoords(100, 100, 1))

\* C16: a rubber-band gesture made with the Shift key held keeps the earlier
\* selection at the press and adds the entities hit at the release ({A} and a
\* band over B give {A, B}); made without it, it clears the selection at the
\* press and selects only the entities hit ({B}).
AdditiveBoxSelection ==
    [][/\ \A p \in BoxPts :
             mode = "SELECT"
                => /\ PointerDown(Origin, p, TRUE) => selectedNodeIds' = selectedNodeIds
                   /\ PointerDown(Origin, p, FALSE) => selectedNodeIds' = {}
       /\ BoxRelease(TRUE) => selectedNodeIds' = selectedNodeIds \cup HitIds(selectionBox[1])
       /\ BoxRelease(FALSE) => selectedNodeIds' = HitIds(selectionBox[1])]_vars

\* Both entities are selected after a band that hit the second one only was
\* released (the menu sits at the centroid of both).
AdditiveBoxSelectionWitness ==
    /\ mode = "SELECT"
    /\ ptr = "up"
    /\ selectionBox = None
    /\ selectedNodeIds = {1, 2}
    /\ selectionMenuPos = Some(toScreenCoords(400, 200, 2))
    /\ pointerStartPos = Origin

\* A pointer-move that pans: a press on the empty canvas is held, with the Pan
\* tool or with the Default tool and no drag session.
PanMove(c) ==
    /\ isDraggingRef
    /\ mode = "PAN" \/ (mode = "DEFAULT" /\ activeDragIds = {})
    /\ PointerMove(c, PanAt)

\* C17: a pan move of d device pixels shifts the viewport's origin by
\* d * viewportWidth / surfaceWidth on both axes (so the shift is proportional to
\* the viewport's width: 10 pixels at width 1200 over a 600-pixel surface is 20
\* units, and half the width gives half the shift) and leaves its extent as it was.
PanScaleInvariance ==
    [][\A c \in PanClient :
          PanMove(c)
             => /\ (viewBox.x - viewBox'.x) * SurfaceW = (c.x - lastPanPoint.x) * viewBox.w
                /\ (viewBox.y - viewBox'.y) * SurfaceW = (c.y - lastPanPoint.y) * viewBox.w
                /\ viewBox'.w = viewBox.w /\ viewBox'.h = viewBox.h
                /\ (c.x - lastPanPoint.x = 10 /\ viewBox.w = 1200 * Unit /\ SurfaceW = 600)
                      => viewBox.x - viewBox'.x = 20 * Unit]_vars

\* The pointer has moved 10 pixels to the right at width 1200 and the origin
\* has moved 20 units.
PanScaleInvarianceWitness ==
    /\ ptr = "canvas"
    /\ isDraggingRef
    /\ wheelTicks = 0
    /\ lastPanPoint = [x |-> 10, y |-> 0]
    /\ viewBox = [x |-> -20 * Unit, y |-> 0, w |-> 1200 * Unit, h |-> VIEW_H * Unit]

\* C18: in every reachable state the identifiers that have a live override are
\* exactly the identifiers that have a recorded drag start offset.
DragSessionConsistency == DOMAIN dragOverrides = DOMAIN dragStartOffsets

\* C19: while the layout is locked, no pointer-down on a node creates a Drag
\* Session, no pointer-move changes an override, and no pointer-up of a gesture
\* begun while locked hands a position update to the store.
LockedLayoutGate ==
    [][isLayoutLocked
          => /\ \A i \in 1 .. Len(notes) :
                   NodePress(i) => UNCHANGED <<activeDragIds, dragOverrides, dragStartOffsets>>
             /\ \A p \in Pts : PointerMove(Origin, p) => dragOverrides' = dragOverrides
             /\ Release => ~Emitted]_vars

\* C21: after every pointer-up no selection box remains in progress and no
\* gesture tracking remains active, whatever key was pressed between the
\* pointer-down and the pointer-up.
ReleaseFinalizes ==
    [][Release => (selectionBox' = None /\ ~isDraggingRef')]_vars

FocusedInputShieldsKeys ==
    [][\A k \in Keys, c \in BOOLEAN :
          KeyDown(k, TRUE, c)
             => UNCHANGED <<selectedNodeIds, selectionMenuPos, activeNodeId, linkSourceId,
                            mode, pending>>]_vars

\* The adjacency slots whose target is not in the entity list.
StaleSlots(ns) == {s \in LinkSlots(ns) : ns[s[1]].links[s[2]] \notin NoteIds(ns)}

\* C24: an adjacency entry whose target is not in the entity list draws no edge
\* in either connection layer; a Connect-mode pick whose armed source is no
\* longer in the list hands the store nothing; and a drag commit carries no
\* identifier that is no longer in the list.
StaleIdsAreSkipped ==
    /\ [](/\ StaticConnections(notes, activeDragIds) \cap StaleSlots(notes) = {}
          /\ DynamicConnections(notes, activeDragIds) \cap StaleSlots(notes) = {})
    /\ [][/\ \A i \in 1 .. Len(notes) :
                (mode = "CONNECT" /\ linkSourceId # NoId /\ linkSourceId \notin NoteIds(notes)
                 /\ NodePress(i))
                   => pending' = pending
          /\ (Release /\ Emitted)
                => \A k \in 1 .. Len(EmittedReq.updates) :
                      EmittedReq.updates[k].id \in NoteIds(notes)]_vars

\* An entity was deleted while the other one's adjacency still names it; the
\* survivor is being dragged and neither layer draws an edge.
StaleIdsAreSkippedWitness ==
    /\ Len(notes) = 1
    /\ StaleSlots(notes) # {}
    /\ \E s \in StaleSlots(notes) : notes[s[1]].links[s[2]] \in 1 .. 2
    /\ activeDragIds = {notes[1].id}
    /\ StaticConnections(notes, activeDragIds) = {}
    /\ DynamicConnections(notes, activeDragIds) = {}

\* C25: a double-click on a node fires the navigation callback for that node
\* (App shows the editor for it), whether or not the node is selected, and
\* leaves the selection set as it was.
DoubleClickNavigates ==
    [][\A i \in 1 .. Len(notes) :
          NodeDoubleClick(i) => (currentView' = "EDITOR" /\ selectedNodeIds' = selectedNodeIds)]_vars

\* The store runs its head updater, of the kind named.
Applies(kind) == pending # <<>> /\ Head(pending).kind = kind /\ pending' = Tail(pending)
ListedPresent(idSeq, ns) == SelectSeq(idSeq, LAMBDA a : a \in NoteIds(ns))

\* C26: duplicating a list of identifiers keeps the entity list as its prefix and
\* appends, for each listed identifier that is in the list and in the order
\* listed, one entity whose identifier is new and unlike any other and whose
\* position is its original's plus (40, 40); identifiers not in the list add
\* nothing.
DuplicateAppendsCopies ==
    [][Applies("duplicate")
          => LET listed == ListedPresent(Head(pending).ids, notes)
                 n == Len(notes)
             IN  /\ Len(notes') = n + Len(listed)
                 /\ SubSeq(notes', 1, n) = notes
                 /\ \A j \in 1 .. Len(listed) :
                       /\ notes'[n + j].id \notin NoteIds(notes)
                       /\ \A k \in 1 .. Len(listed) : k # j => notes'[n + k].id # notes'[n + j].id
                       /\ notes'[n + j].x = Find(notes, listed[j]).x + 40
                       /\ notes'[n + j].y = Find(notes, listed[j]).y + 40
                       /\ notes'[n + j].links = Find(notes, listed[j]).links]_vars

\* A request naming one identifier twice and the list's only entity has been
\* applied: two copies with new identifiers stand behind the original.
DuplicateAppendsCopiesWitness ==
    /\ pending = <<>>
    /\ Len(notes) = 3
    /\ notes[1].id <= MaxNotes /\ notes[2].id = MaxNotes + 1 /\ notes[3].id = MaxNotes + 2
    /\ \A j \in 2 .. 3 : notes[j].x = notes[1].x + 40 /\ notes[j].y = notes[1].y + 40

\* C27: applying a batch update keeps the list's length and order; each entity
\* whose identifier is in the batch becomes a batch entry with that identifier,
\* every other entity is unchanged, and a batch entry whose identifier is not in
\* the list adds nothing.
BatchUpdateMergesById ==
    [][Applies("update")
          => LET batch == Head(pending).updates
             IN  /\ Len(notes') = Len(notes)
                 /\ \A i \in 1 .. Len(notes) :
                       /\ notes'[i].id = notes[i].id
                       /\ IF \E k \in 1 .. Len(batch) : batch[k].id = notes[i].id
                          THEN \E k \in 1 .. Len(batch) : notes'[i] = batch[k]
                          ELSE notes'[i] = notes[i]
                 /\ NoteIds(notes') = NoteIds(notes)]_vars

\* A batch has been applied to a list of two: the second entity holds the
\* batch's position and the first is where it was.
BatchUpdateMergesByIdWitness ==
    /\ pending = <<>>
    /\ Len(notes) = 2
    /\ notes[1].y = 0
    /\ notes[2].x = (MaxCell + 1) * Cell /\ notes[2].y = Cell

\* C28: when the pointer is released where it went down on a node that was
\* already part of a selection of more than one entity, outside Connect mode:
\* with Shift held the node leaves the selection; without it the selection
\* stays and the bulk-action menu opens.
ClickOnSelectedNode ==
    [][(ptr = "node" /\ mode # "CONNECT" /\ Cardinality(selectedNodeIds) > 1)
          => /\ PointerUp(TRUE)
                   => /\ selectedNodeIds' \subseteq selectedNodeIds
                      /\ Cardinality(selectedNodeIds') = Cardinality(selectedNodeIds) - 1
             /\ PointerUp(FALSE)
                   => /\ selectedNodeIds' = selectedNodeIds
                      /\ selectionMenuPos' # None]_vars

\* C29: a pointer-down on a node outside Connect mode makes the selection
\* {node} when the node is unselected and Shift is up, adds the node when it is
\* unselected and Shift is down, leaves the selection alone when the node is
\* selected, and always closes the menu and the detail view.
NodePressSelects ==
    [][\A i \in 1 .. Len(notes), s \in BOOLEAN :
          (mode # "CONNECT"
           /\ (StaticNodePointerDown(i, Origin, s) \/ DynamicNodePointerDown(i, Origin, s)))
             => /\ selectedNodeIds' =
                      IF notes[i].id \in selectedNodeIds THEN selectedNodeIds
                      ELSE IF s THEN selectedNodeIds \cup {notes[i].id}
                      ELSE {notes[i].id}
                /\ selectionMenuPos' = None
                /\ activeNodeId' = NoId]_vars

\* With the Pan tool, a Shift press on the second entity has joined it to the
\* first; no menu, no detail view.
NodePressSelectsWitness ==
    /\ ptr = "node"
    /\ mode = "PAN"
    /\ selectedNodeIds = {1, 2}
    /\ selectionMenuPos = None
    /\ activeNodeId = NoId

\* C30: a pointer-down on a node in Default mode with the layout unlocked
\* creates a Drag Session over exactly the listed entities of the selection the
\* press leaves (the pressed node among them), each with offset = pointer minus
\* stored position and an override equal to its stored position, and no entity
\* is drawn elsewhere than before the press.
DragStartKeepsPositions ==
    [][\A i \in 1 .. Len(notes) :
          (mode = "DEFAULT" /\ ~isLayoutLocked /\ NodePress(i))
             => /\ notes[i].id \in selectedNodeIds'
                /\ activeDragIds' = selectedNodeIds' \cap NoteIds(notes)
                /\ DOMAIN dragOverrides' = activeDragIds'
                /\ DOMAIN dragStartOffsets' = activeDragIds'
                /\ \A id \in activeDragIds' :
                      /\ dragOverrides'[id] = StoredPos(Find(notes, id))
                      /\ \E p \in Pts :
                            /\ p \in DrawnAt(notes[i].id)
                            /\ dragStartOffsets'[id] = [dx |-> p.x - Find(notes, id).x,
                                                        dy |-> p.y - Find(notes, id).y]
                /\ \A id \in NoteIds(notes) : DrawnAt(id)' = DrawnAt(id)]_vars

\* The pointer is down on a node and holds a Drag Session that moves with it.
DragHeld ==
    /\ ptr = "node" /\ isDraggingRef
    /\ mode = "DEFAULT" /\ ~isLayoutLocked
    /\ activeDragIds # {}

\* C31: at every pointer-move of a drag each dragged entity's override is the
\* pointer's canvas position minus its recorded offset, and throughout the drag
\* all dragged entities are displaced from their start positions by one vector.
RigidMultiDrag ==
    /\ [](DragHeld
            => /\ activeDragIds \subseteq DOMAIN dragStartOffsets
               /\ activeDragIds \subseteq DOMAIN dragOverrides
               /\ \A a, b \in activeDragIds :
                     /\ dragOverrides[a].x - dragOrigin[a].x = dragOverrides[b].x - dragOrigin[b].x
                     /\ dragOverrides[a].y - dragOrigin[a].y = dragOverrides[b].y - dragOrigin[b].y)
    /\ [][\A p \in RigidPts :
             (DragHeld /\ PointerMove(Origin, p))
                => \A id \in activeDragIds :
                      /\ dragOverrides'[id].x = p.x - dragStartOffsets[id].dx
                      /\ dragOverrides'[id].y = p.y - dragStartOffsets[id].dy]_vars

\* Both entities are held and have been carried one cell to the right.
RigidMultiDragWitness ==
    /\ DragHeld
    /\ activeDragIds = {1, 2}
    /\ dragOverrides[1] = [x |-> Cell, y |-> 0]
    /\ dragOverrides[2] = [x |-> Cell, y |-> Cell]

\* C32: in every reachable state the drag set and the override identifiers
\* coincide on the existing entities, and every entity of the list is rendered by
\* exactly one node layer: the static one when it is not in the drag set, the
\* dynamic one, at its override, when it is.
NodeRenderPartition ==
    /\ activeDragIds \cap NoteIds(notes) = DOMAIN dragOverrides \cap NoteIds(notes)
    /\ \A i \in 1 .. Len(notes) :
          /\ (i \in StaticNodes(notes, activeDragIds)) # (i \in DynamicNodes(notes, dragOverrides))
          /\ (i \in StaticNodes(notes, activeDragIds)) <=> (notes[i].id \notin activeDragIds)
          /\ (i \in DynamicNodes(notes, dragOverrides)) <=> (notes[i].id \in activeDragIds)
          /\ Cardinality(DrawnAt(notes[i].id)) = 1

\* One entity is carried by the dynamic layer, away from its stored position,
\* while the other stays in the static layer.
NodeRenderPartitionWitness ==
    /\ Len(notes) = 2
    /\ DynamicNodes(notes, dragOverrides) = {1}
    /\ StaticNodes(notes, activeDragIds) = {2}
    /\ dragOverrides[1] # StoredPos(notes[1])

\* The existing entities among ids, a fraction in lowest terms, and whether the
\* screen point m (fractions xn/xd, yn/yd) is the screen image of the centroid of
\* those entities.
ExistingIn(ids) == {i \in 1 .. Len(notes) : notes[i].id \in ids}
RECURSIVE Gcd(_, _)
Gcd(a, b) == IF b = 0 THEN a ELSE Gcd(b, a % b)
Lowest(n, d) == LET g == Gcd(Abs(n), Abs(d)) IN <<n \div g, d \div g>>
AtCentroid(m, ids) ==
    LET k == Cardinality(ExistingIn(ids))
        sx == SumOver(notes, ids, "x")
        sy == SumOver(notes, ids, "y")
    IN  /\ Lowest(m.xn, m.xd) = Lowest((sx * Unit - k * viewBox.x) * SurfaceW, k * viewBox.w)
        /\ Lowest(m.yn, m.yd) = Lowest((sy * Unit - k * viewBox.y) * SurfaceH, k * viewBox.h)

\* C33: after a rubber-band release the menu is open exactly when the resulting
\* selection contains an existing entity, and then it is anchored at the screen
\* image of the centroid of the selected existing entities; a release that
\* selects nothing leaves the menu closed.
BandReleaseMenu ==
    [][\A s \in BOOLEAN :
          BoxRelease(s)
             => /\ (selectionMenuPos' # None) <=> (ExistingIn(selectedNodeIds') # {})
                /\ selectionMenuPos' # None
                      => AtCentroid(selectionMenuPos'[1], selectedNodeIds')
                /\ selectedNodeIds' = {} => selectionMenuPos' = None]_vars

\* A band over the second entity alone was released: the menu sits on that
\* entity's screen image.
BandReleaseMenuWitness ==
    /\ mode = "SELECT"
    /\ ptr = "up"
    /\ selectionBox = None
    /\ selectedNodeIds = {2}
    /\ selectionMenuPos = Some([xn |-> 300 * Unit * SurfaceW, xd |-> viewBox.w,
                                yn |-> 100 * Unit * SurfaceH, yd |-> viewBox.h])

\* The pointer is down on a node whose press began a Drag Session (every node
\* press of SpecRigid begins one and records where its entities stood).
SessionHeld == ptr = "node" /\ dragOrigin # EmptyMap

\* The batch a pointer-up commits for the session begun at the press: one update
\* per entity of the session, at its override.
SessionCommitted ==
    /\ Emitted
    /\ DOMAIN dragOrigin \subseteq DOMAIN dragOverrides
    /\ EmittedReq = UpdateReq(DragUpdates(notes, dragOverrides, DOMAIN dragOverrides))

\* C34: an Escape key press during a drag leaves the drag set, the start
\* offsets, the overrides, the viewport and the locked flag unchanged, and the
\* pointer-up that follows it still commits the overrides.  (While the pointer is
\* down on a node the selection is empty only after Escape.)
EscapeKeepsDrag ==
    /\ [][(SessionHeld /\ KeyDown("Escape", FALSE, FALSE))
             => UNCHANGED <<activeDragIds, dragStartOffsets, dragOverrides, viewBox,
                            isLayoutLocked>>]_vars
    /\ [][(SessionHeld /\ selectedNodeIds = {} /\ Release) => SessionCommitted]_vars

\* C35: a Drag Session whose pointer is still down keeps its drag set and its
\* overrides whatever the store observes meanwhile, its pointer-moves move the
\* entities and do not pan, and its pointer-up commits them.
HeldDragSurvives ==
    /\ [](SessionHeld
            => /\ DOMAIN dragOrigin \subseteq activeDragIds
               /\ DOMAIN dragOrigin \subseteq DOMAIN dragOverrides)
    /\ [][\A p \in RigidPts :
             (SessionHeld /\ PointerMove(Origin, p))
                => /\ viewBox' = viewBox
                   /\ \A id \in DOMAIN dragOrigin :
                         /\ id \in DOMAIN dragOverrides'
                         /\ dragOverrides'[id].x = p.x - dragStartOffsets[id].dx
                         /\ dragOverrides'[id].y = p.y - dragStartOffsets[id].dy]_vars
    /\ [][(SessionHeld /\ Release) => SessionCommitted]_vars

\* C36: after the pointer-up of a drag, when the store eventually applies each
\* emitted update, a state is reached in which the drag set and the overrides
\* are empty, unless a new drag is started first.
DragEventuallyCleared ==
    (ptr = "up" /\ activeDragIds # {})
        ~> ((activeDragIds = {} /\ dragOverrides = EmptyMap) \/ ptr = "node")

\* A drag that carried the first entity one cell to the right has been committed,
\* applied and cleared.
DragEventuallyClearedWitness ==
    /\ ptr = "up"
    /\ activeDragIds = {} /\ dragOverrides = EmptyMap
    /\ pending = <<>> /\ ~dragCommitRef
    /\ StoredPos(notes[1]) = [x |-> Cell, y |-> 0]

\* The entity list once the store has applied every request in reqs, in order.
RECURSIVE Settled(_, _, _)
Settled(ns, reqs, fresh) ==
    IF reqs = <<>> THEN ns
    ELSE LET after == Applied(ns, Head(reqs), fresh)
         IN  Settled(after, Tail(reqs),
                     IF Head(reqs).kind = "duplicate" THEN fresh + (Len(after) - Len(ns)) ELSE fresh)

\* C37: an update the canvas emits never overwrites an earlier emitted update of
\* the same entity that the store has not applied yet: a drag commit carries the
\* adjacency the entity has once the updates in flight are applied, and a link
\* toggle carries the position it has then and toggles the adjacency it has then.
NoLostUpdate ==
    [][(Emitted /\ EmittedReq.kind = "update")
          => LET settled == Settled(notes, pending, nextId)
             IN  \A k \in 1 .. Len(EmittedReq.updates) :
                    LET u == EmittedReq.updates[k]
                    IN  u.id \in NoteIds(settled)
                           => IF Release
                              THEN u.links = Find(settled, u.id).links
                              ELSE /\ StoredPos(u) = StoredPos(Find(settled, u.id))
                                   /\ \E b \in NoteIds(notes) :
                                         u.links = ToggledLinks(Find(settled, u.id).links, b)]_vars

\* C38: when the store applies a deletion requested from the canvas, the
\* selection set holds no identifier of an entity that deletion removed.
DeletionLeavesNoStaleSelection ==
    [][Applies("delete") => selectedNodeIds' \cap (NoteIds(notes) \ NoteIds(notes')) = {}]_vars

\* Whether the edge layers draw an edge between a and b for the list ns with no
\* drag in progress.
EdgeRendered(ns, a, b) ==
    \E s \in StaticConnections(ns, {}) \cup DynamicConnections(ns, {}) :
        SlotKey(ns, s) = getLinkKey(a, b)

====
